---- MODULE Spec2Model ----
(***************************************************************************)
(* The DMI forecast ingestion pipelines:                                   *)
(*   dmi_ingestor/ingestor.py  (multi-parameter, PARAMETERS="p1,p2,...")   *)
(*   dmi_ingester/ingester.py  (single-parameter, PARAMETER="p")           *)
(* Python strings are sequences of one-character strings, so that split,   *)
(* replace, lstrip and path concatenation are computed as the code does.   *)
(* The object store (s3fs) and the local data directory are functions from *)
(* a path to the content of the object or file.                            *)
(***************************************************************************)
EXTENDS Integers, Sequences, FiniteSets, TLC

VARIABLES
    env,        \* the environment-derived configuration of the deployment
    pc,         \* position of the process in __main__
    idx,        \* index of the current element of parameters.split(",")
    response,   \* outcome of requests.get for the current parameter
    ds,         \* the decoded dataset (its time axis), or NoDataset
    band,       \* loop counter of the band loop (0-based, as enumerate)
    forecasts,  \* the dict built by the band loop
    s3,         \* the object store: path -> content
    local,      \* the local data directory /app/data: file name -> content
    failure,    \* what ended the current parameter's run abnormally, or "none"
    oplog,      \* storage calls made so far in the current parameter's run
    prev,       \* summary of the parameter run that ended before the current one
    calc,       \* scratch state of the pure-function specifications
    query,      \* query_params of the request sent for the current parameter
    srs         \* spatial reference of the decoded dataset: its tag and its grid

vars == <<env, pc, idx, response, ds, band, forecasts, s3, local,
          failure, oplog, prev, calc>>

(***************************************************************************)
(* Bounds of the model.                                                    *)
(***************************************************************************)
\* instants of the forecast time base a fetched time axis is drawn from
MaxTime == 3
\* instants per whole second (the sub-second resolution of the time base)
TicksPerSecond == 2

(***************************************************************************)
(* Python string operations.                                               *)
(***************************************************************************)
\* str.split(sep) for a one-character separator
RECURSIVE split(_, _)
split(s, sep) ==
    IF \E i \in 1..Len(s) : s[i] = sep
    THEN LET i == CHOOSE k \in 1..Len(s) :
                      s[k] = sep /\ \A j \in 1..(k - 1) : s[j] # sep
         IN  <<SubSeq(s, 1, i - 1)>> \o split(SubSeq(s, i + 1, Len(s)), sep)
    ELSE <<s>>

\* str.replace(c, "") for a one-character c
replace(s, c) == SelectSeq(s, LAMBDA x : x # c)

\* str.lstrip(chars): drops leading characters that are members of chars
RECURSIVE lstrip(_, _)
lstrip(s, chars) ==
    IF s # <<>> /\ \E i \in 1..Len(chars) : chars[i] = s[1]
    THEN lstrip(Tail(s), chars)
    ELSE s

\* str.rstrip("/")
RECURSIVE rstrip_slash(_)
rstrip_slash(s) ==
    IF s # <<>> /\ s[Len(s)] = "/"
    THEN rstrip_slash(SubSeq(s, 1, Len(s) - 1))
    ELSE s

\* str.startswith(p)
startswith(s, p) == Len(p) <= Len(s) /\ SubSeq(s, 1, Len(p)) = p

\* one decimal digit as a character
Digit(n) == CASE n = 0 -> "0" [] n = 1 -> "1" [] n = 2 -> "2" [] n = 3 -> "3"
              [] n = 4 -> "4" [] n = 5 -> "5" [] n = 6 -> "6" [] n = 7 -> "7"
              [] n = 8 -> "8" [] n = 9 -> "9"

\* a zero-padded two-digit field
TwoDigits(n) == <<Digit(n \div 10), Digit(n % 10)>>

(***************************************************************************)
(* Timestamps.  A value of ds.time.values is a numpy datetime64[ns]; the   *)
(* model counts it in ticks, TicksPerSecond to the second, since           *)
(* 2024-03-01T00:00:00, so that several instants of one whole second       *)
(* exist.  str(t) prints the ISO form with nine fractional digits.         *)
(***************************************************************************)
datetime_str(t) ==
    LET secs == t \div TicksPerSecond
        frac == (t % TicksPerSecond) * (10 \div TicksPerSecond)
        day  == 1 + (secs \div 86400)
        hh   == (secs % 86400) \div 3600
        mm   == (secs % 3600) \div 60
        ss   == secs % 60
    IN  <<"2", "0", "2", "4", "-", "0", "3", "-">> \o TwoDigits(day) \o <<"T">>
        \o TwoDigits(hh) \o <<":">> \o TwoDigits(mm) \o <<":">> \o TwoDigits(ss)
        \o <<".", Digit(frac), "0", "0", "0", "0", "0", "0", "0", "0">>

\* str(t).split('.')[0]
whole_seconds_str(t) == split(datetime_str(t), ".")[1]

\* faulty variant: the colons are not removed
time_str_with_colons(t) == replace(whole_seconds_str(t), "-")

\* faulty variant: the key is cut after the minutes
time_str_to_minutes(t) ==
    replace(replace(SubSeq(whole_seconds_str(t), 1, 16), "-"), ":")

\* time_str = str(t).split('.')[0].replace("-", "").replace(":", "")
time_str(t) == replace(replace(whole_seconds_str(t), "-"), ":")

\* os.path.basename(os.path.join(folder_name, time_str + ".tif"))
band_file(t) == time_str(t) \o <<".", "t", "i", "f">>

(***************************************************************************)
(* Configuration (__main__, "Configurable parameters").                    *)
(***************************************************************************)
\* os.getenv("PARAMETERS") of the multi-parameter pipeline
ParametersSettings == { <<"a">>, <<"a", ",", "b">>, <<"a", ",", "a">> }

\* PARAMETERS with a trailing comma: split(",") gives an empty last element
TrailingComma == <<"a", ",">>

\* os.getenv("PARAMETER") of the single-parameter pipeline
ParameterSettings == { <<"a">> }

\* os.getenv("COLLECTION", "dkss_if")
DefaultCollection == <<"d", "k", "s", "s", "_", "i", "f">>

\* a collection of the HARMONIE model family: harmonie_dini_sf
HarmonieCollection ==
    <<"h", "a", "r", "m", "o", "n", "i", "e", "_", "d", "i", "n", "i", "_", "s", "f">>

\* the prefix that collection.startswith tests
Harmonie == <<"h", "a", "r", "m", "o", "n", "i", "e">>

\* os.getenv("BUCKET_ENDPOINT"): https://o.t
Endpoint == <<"h", "t", "t", "p", "s", ":", "/", "/", "o", ".", "t">>

Environments ==
    [ variant         : {"ingestor"},
      upload          : BOOLEAN,
      parameters      : ParametersSettings,
      bucket_name     : { <<"b">> },
      bucket_base_path: { <<"f">> },
      collection      : { DefaultCollection },
      bucket_endpoint : { Endpoint } ]
    \cup
    [ variant         : {"ingester"},
      upload          : BOOLEAN,
      parameters      : ParameterSettings,
      bucket_name     : { <<"b">> },
      bucket_base_path: { <<"f">> },
      collection      : { DefaultCollection },
      bucket_endpoint : { Endpoint } ]
    \cup
    [ variant         : {"ingestor", "ingester"},
      upload          : {TRUE},
      parameters      : ParameterSettings,
      bucket_name     : { <<"b">> },
      bucket_base_path: { <<"f">> },
      collection      : { HarmonieCollection },
      bucket_endpoint : { Endpoint } ]

\* a deployment whose PARAMETERS has an empty element
EmptyElementEnvironments ==
    [ variant         : {"ingestor"},
      upload          : {TRUE},
      parameters      : { TrailingComma },
      bucket_name     : { <<"b">> },
      bucket_base_path: { <<"f">> },
      collection      : { DefaultCollection },
      bucket_endpoint : { Endpoint } ]

\* the list the process iterates: parameters.split(",") in the multi-parameter
\* pipeline, the single PARAMETER in the single-parameter pipeline
parameter_list(e) ==
    IF e.variant = "ingestor" THEN split(e.parameters, ",") ELSE <<e.parameters>>

Slash == <<"/">>
ForecastsJson == <<"f", "o", "r", "e", "c", "a", "s", "t", "s", ".", "j", "s", "o", "n">>
TempNc == <<"t", "e", "m", "p", ".", "n", "c">>
TempTif == <<"t", "e", "m", "p", ".", "t", "i", "f">>

\* ingestor: bucket_path = f"{bucket_base_path}/{collection}/{parameter}"
bucket_path(e, p) == e.bucket_base_path \o Slash \o e.collection \o Slash \o p

\* the path handed to delete_outdated_forecasts:
\*   ingestor: bucket_path_full = f"{bucket_name}/{bucket_path}"
\*   ingester: bucket_path = f"{bucket_name}/{bucket_base_path}/{collection}/{parameter}/"
target_path(e, p) ==
    IF e.variant = "ingestor"
    THEN e.bucket_name \o Slash \o bucket_path(e, p)
    ELSE e.bucket_name \o Slash \o e.bucket_base_path \o Slash \o e.collection
         \o Slash \o p \o Slash

\* the object a band is uploaded to:
\*   ingestor: f"{bucket_name}/{bucket_path}/{os.path.basename(output_file)}"
\*   ingester: bucket_path + os.path.basename(output_file)
band_object(e, p, t) ==
    IF e.variant = "ingestor"
    THEN e.bucket_name \o Slash \o bucket_path(e, p) \o Slash \o band_file(t)
    ELSE target_path(e, p) \o band_file(t)

\* forecast_json_bucket_path
forecast_json_bucket_path(e, p) ==
    IF e.variant = "ingestor"
    THEN target_path(e, p) \o Slash \o ForecastsJson
    ELSE target_path(e, p) \o ForecastsJson

\* f"https://{bucket_name}.{endpoint.lstrip('https://')}/{bucket_path}/{basename}"
public_url(e, p, t) ==
    <<"h", "t", "t", "p", "s", ":", "/", "/">> \o e.bucket_name \o <<".">>
    \o lstrip(e.bucket_endpoint, <<"h", "t", "t", "p", "s", ":", "/", "/">>)
    \o Slash \o bucket_path(e, p) \o Slash \o band_file(t)

(***************************************************************************)
(* The coordinate reference.  A spatial reference is a record of the tag   *)
(* the dataset carries and of the coordinates its grid is really in.       *)
(***************************************************************************)
\* faulty variant: the geographic hint is sent for every collection
crs_always_crs84(e) == "crs84"

\* ingestor: crs = "native" if collection.startswith("harmonie") else "crs84"
\* ingester: "crs": "crs84"
crs(e) ==
    IF e.variant = "ingestor" /\ startswith(e.collection, Harmonie)
    THEN "native"
    ELSE "crs84"

\* query_params
query_params(e, p) == [crs |-> crs(e), parameter_name |-> p]

\* the grid the upstream API returns for a coordinate-reference hint: the
\* Lambert grid of the model for "native", longitude/latitude for "crs84"
upstream_crs(hint) == IF hint = "native" THEN "lambert" ELSE "geographic"

\* the reference of a freshly decoded dataset is that of the returned grid
decoded_srs(r) == [tag |-> r.crs, grid |-> r.crs]

\* reproject_from_lambert: write_crs(LCC_DMI_WKT) replaces the tag by the
\* Lambert reference whatever the grid is, rio.reproject("epsg:4326") then
\* transforms the grid as the tag says
reproject_from_lambert(r) ==
    [tag |-> "geographic",
     grid |-> IF r.grid = "lambert" THEN "geographic" ELSE "distorted"]

\* ingestor: if collection.startswith("harmonie"): ds = reproject_from_lambert(ds)
\* ingester: the dataset is used as decoded
normalized(e, r) ==
    IF e.variant = "ingestor" /\ startswith(e.collection, Harmonie)
    THEN reproject_from_lambert(r)
    ELSE r

(***************************************************************************)
(* The object store and the local directory: functions path -> content.    *)
(***************************************************************************)
EmptyFiles == [k \in {} |-> 0]

\* writing a file or object, overwriting what is there
put(fs, path, content) ==
    [k \in DOMAIN fs \cup {path} |-> IF k = path THEN content ELSE fs[k]]

\* removing a set of files or objects
drop(fs, paths) == [k \in DOMAIN fs \ paths |-> fs[k]]

\* the objects s3.rm(path, recursive=True) finds: the object path itself and
\* every object below it
under(store, path) ==
    { k \in DOMAIN store :
        \/ k = rstrip_slash(path)
        \/ startswith(k, rstrip_slash(path) \o Slash) }

\* the part of the store that lies under a path
restrict(store, path) == [k \in under(store, path) |-> store[k]]

\* faulty variant: rm without recursive=True removes only the object named by the path
rm_non_recursive(store, path) == drop(store, {path} \cap DOMAIN store)

\* s3.rm(bucket_path, recursive=True)
rm_recursive(store, path) == drop(store, under(store, path))

(***************************************************************************)
(* Fetched payloads.                                                       *)
(***************************************************************************)
Instants == 0..(MaxTime - 1)

\* the ascending sequence of a set of instants
RECURSIVE ascending(_)
ascending(S) ==
    IF S = {} THEN <<>>
    ELSE LET m == CHOOSE x \in S : \A y \in S : x <= y
         IN  <<m>> \o ascending(S \ {m})

\* the time axes a forecast can carry: strictly ascending, at least one step
TimeAxes == { ascending(S) : S \in (SUBSET Instants) \ {{}} }

\* bytes xarray cannot decode
Garbage == [decodable |-> FALSE, time |-> <<>>]

\* no dataset has been decoded yet
NoDataset == <<>>

\* response.content: an encoded dataset with its time axis, or garbage
Payloads == { [decodable |-> TRUE, time |-> a] : a \in TimeAxes } \cup {Garbage}

\* ingester: {"available_forecasts": [str(t).split('.')[0] for t in ds.time.values]}
available_forecasts(times) ==
    [available_forecasts |-> [i \in 1..Len(times) |-> whole_seconds_str(times[i])]]

(***************************************************************************)
(* The process.                                                            *)
(***************************************************************************)
parameter == parameter_list(env)[idx]

NoResponse == [status |-> "none"]
NoQuery == [crs |-> "none"]
NoSrs == [tag |-> "none", grid |-> "none"]
NoPrev == [ok |-> FALSE]
Idle == [op |-> "idle"]

\* the state of a parameter's run before its fetch
fresh_run ==
    /\ response' = NoResponse
    /\ ds' = NoDataset
    /\ band' = 0
    /\ failure' = "none"
    /\ oplog' = <<>>
    /\ query' = NoQuery
    /\ srs' = NoSrs

\* what is remembered of the run that ends in the current state
run_summary ==
    IF pc = "done" /\ failure = "none"
    THEN [ok |-> TRUE, path |-> target_path(env, parameter), time |-> ds,
          found |-> oplog[1].found,
          objects |-> restrict(s3, target_path(env, parameter))]
    ELSE NoPrev

\* an uncaught exception ends the process
raise(what) ==
    /\ pc' = "crashed"
    /\ failure' = what

\* the state of a process that starts in one of the deployments E
InitIn(E) ==
    /\ env \in E
    /\ pc = "fetch"
    /\ idx = 1
    /\ response = NoResponse
    /\ ds = NoDataset
    /\ band = 0
    /\ forecasts = EmptyFiles
    /\ s3 = EmptyFiles
    /\ local = EmptyFiles
    /\ failure = "none"
    /\ oplog = <<>>
    /\ prev = NoPrev
    /\ calc = Idle
    /\ query = NoQuery
    /\ srs = NoSrs

Init == InitIn(Environments)

\* faulty variant: the deletion is left out
FetchOk_SkipsDelete ==
    /\ pc = "fetch"
    /\ \E c \in Payloads :
          response' = [status |-> "ok", content |-> c,
                       crs |-> upstream_crs(crs(env))]
    /\ pc' = "decode"
    /\ query' = query_params(env, parameter)
    /\ UNCHANGED <<env, idx, ds, band, forecasts, s3, local, failure,
                   oplog, prev, calc, srs>>

\* requests.get + raise_for_status: a success status with some payload
FetchOk ==
    /\ pc = "fetch"
    /\ \E c \in Payloads :
          response' = [status |-> "ok", content |-> c,
                       crs |-> upstream_crs(crs(env))]
    /\ pc' = "delete"
    /\ query' = query_params(env, parameter)
    /\ UNCHANGED <<env, idx, ds, band, forecasts, s3, local, failure,
                   oplog, prev, calc, srs>>

\* faulty variant: the branch after the fetch runs although the fetch has failed
FetchHttpError_FallsThrough ==
    /\ pc = "fetch"
    /\ response' = [status |-> "http_error", content |-> Garbage]
    /\ failure' = "fetch"
    /\ pc' = "delete"
    /\ query' = query_params(env, parameter)
    /\ UNCHANGED <<env, idx, ds, band, forecasts, s3, local, oplog, prev, calc, srs>>

\* raise_for_status raises HTTPError; except HTTPError logs it, the else
\* branch is skipped
FetchHttpError ==
    /\ pc = "fetch"
    /\ response' = [status |-> "http_error"]
    /\ failure' = "fetch"
    /\ pc' = "done"
    /\ query' = query_params(env, parameter)
    /\ UNCHANGED <<env, idx, ds, band, forecasts, s3, local, oplog,
                   prev, calc, srs>>

\* requests.get raises an exception that is no HTTPError (ConnectionError,
\* Timeout): no handler catches it
FetchRaises ==
    /\ pc = "fetch"
    /\ raise("connection")
    /\ query' = query_params(env, parameter)
    /\ UNCHANGED <<env, idx, response, ds, band, forecasts, s3, local,
                   oplog, prev, calc, srs>>

\* what s3.rm(path, recursive=True) raises: FileNotFoundError when nothing
\* lies under the path
rm_raises(store, path) ==
    IF under(store, path) = {} THEN "FileNotFoundError" ELSE "nothing"

\* faulty variant: no except clause
caught_nothing(exc) == FALSE

\* except FileNotFoundError as err: logger.debug(err)
caught(exc) == exc = "FileNotFoundError"

\* faulty variant: the call is made but removes nothing
delete_outdated_forecasts_dry(path) ==
    /\ s3' = s3
    /\ oplog' = Append(oplog, [op |-> "rm", path |-> path,
                               found |-> Cardinality(under(s3, path))])
    /\ pc' = "decode"
    /\ UNCHANGED failure

\* the body of delete_outdated_forecasts
delete_outdated_forecasts(path) ==
    /\ s3' = rm_recursive(s3, path)
    /\ oplog' = Append(oplog, [op |-> "rm", path |-> path,
                               found |-> Cardinality(under(s3, path))])
    /\ IF rm_raises(s3, path) = "nothing" \/ caught(rm_raises(s3, path))
       THEN pc' = "decode" /\ UNCHANGED failure
       ELSE raise("not_found")

DeleteOutdated ==
    /\ pc = "delete"
    /\ delete_outdated_forecasts(target_path(env, parameter))
    /\ UNCHANGED <<env, idx, response, ds, band, forecasts, local, prev, calc, query, srs>>

\* s3.rm raises an I/O error other than FileNotFoundError
DeleteFails ==
    /\ pc = "delete"
    /\ raise("delete")
    /\ UNCHANGED <<env, idx, response, ds, band, forecasts, s3, local,
                   oplog, prev, calc, query, srs>>

\* ds = xarray.open_dataset(BytesIO(response.content)), then, in the
\* multi-parameter pipeline, the conditional reprojection
OpenDataset ==
    /\ pc = "decode"
    /\ response.content.decodable
    /\ ds' = response.content.time
    /\ srs' = normalized(env, decoded_srs(response))
    /\ pc' = "netcdf"
    /\ UNCHANGED <<env, idx, response, band, forecasts, s3, local,
                   failure, oplog, prev, calc, query>>

\* xarray cannot decode the payload
OpenDatasetFails ==
    /\ pc = "decode"
    /\ ~response.content.decodable
    /\ raise("decode")
    /\ UNCHANGED <<env, idx, response, ds, band, forecasts, s3, local,
                   oplog, prev, calc, query, srs>>

\* ds.to_netcdf(nc_filename)
ToNetcdf ==
    /\ pc = "netcdf"
    /\ local' = put(local, TempNc, ds)
    /\ pc' = "cog"
    /\ UNCHANGED <<env, idx, response, ds, band, forecasts, s3, failure,
                   oplog, prev, calc, query, srs>>

\* faulty variant: the dict survives from one call to the next (a mutable default)
kept_forecasts == forecasts

\* forecasts = {} on entry of transform_cog_to_single_bands_and_upload_to_bucket
new_forecasts == EmptyFiles

\* netcdf_to_cog(nc_filename, cog_filename), then the call of
\* transform_cog_to_single_bands_and_upload_to_bucket up to its loop
NetcdfToCog ==
    /\ pc = "cog"
    /\ local' = put(local, TempTif, local[TempNc])
    /\ forecasts' = new_forecasts
    /\ pc' = "bands"
    /\ UNCHANGED <<env, idx, response, ds, band, s3, failure, oplog, prev, calc, query, srs>>

\* the conversion raises
NetcdfToCogFails ==
    /\ pc = "cog"
    /\ raise("convert")
    /\ UNCHANGED <<env, idx, response, ds, band, forecasts, s3, local,
                   oplog, prev, calc, query, srs>>

\* the state after the body of the band loop has run for the last time
after_bands == IF band + 1 = Len(ds) THEN "dump" ELSE "bands"

\* upload_to_bucket(local_file, bucket_file, ...)
upload_to_bucket(files, local_file, bucket_file) ==
    /\ s3' = put(s3, bucket_file, files[local_file])
    /\ oplog' = Append(oplog, [op |-> "put", path |-> bucket_file])

\* faulty variant: the loop walks the time axis from its end
BandStep_Descending ==
    /\ pc = "bands"
    /\ band < Len(ds)
    /\ LET t      == ds[Len(ds) - band]
           files  == put(local, band_file(t), local[TempTif][Len(ds) - band])
       IN  /\ local' = files
           /\ IF env.upload
              THEN /\ upload_to_bucket(files, band_file(t), band_object(env, parameter, t))
                   /\ forecasts' = IF env.variant = "ingestor"
                                   THEN put(forecasts, time_str(t),
                                            public_url(env, parameter, t))
                                   ELSE forecasts
              ELSE UNCHANGED <<s3, oplog, forecasts>>
    /\ band' = band + 1
    /\ pc' = after_bands
    /\ UNCHANGED <<env, idx, response, ds, failure, prev, calc, query, srs>>

\* one pass of the loop of transform_cog_to_single_bands_and_upload_to_bucket:
\* band+1 of the raster is written to {time_str}.tif, uploaded if upload is
\* set, and (multi-parameter pipeline) entered in forecasts
BandStep ==
    /\ pc = "bands"
    /\ band < Len(ds)
    /\ LET t      == ds[band + 1]
           files  == put(local, band_file(t), local[TempTif][band + 1])
       IN  /\ local' = files
           /\ IF env.upload
              THEN /\ upload_to_bucket(files, band_file(t), band_object(env, parameter, t))
                   /\ forecasts' = IF env.variant = "ingestor"
                                   THEN put(forecasts, time_str(t),
                                            public_url(env, parameter, t))
                                   ELSE forecasts
              ELSE UNCHANGED <<s3, oplog, forecasts>>
    /\ band' = band + 1
    /\ pc' = after_bands
    /\ UNCHANGED <<env, idx, response, ds, failure, prev, calc, query, srs>>

\* faulty variant: the failed upload is swallowed and the loop goes on
BandUploadFails_Swallowed ==
    /\ pc = "bands"
    /\ band < Len(ds)
    /\ env.upload
    /\ local' = put(local, band_file(ds[band + 1]), local[TempTif][band + 1])
    /\ failure' = "band_upload"
    /\ band' = band + 1
    /\ pc' = after_bands
    /\ UNCHANGED <<env, idx, response, ds, forecasts, s3, oplog, prev, calc, query, srs>>

\* the upload of a band raises: the band file is written, nothing is uploaded
BandUploadFails ==
    /\ pc = "bands"
    /\ band < Len(ds)
    /\ env.upload
    /\ local' = put(local, band_file(ds[band + 1]), local[TempTif][band + 1])
    /\ raise("band_upload")
    /\ UNCHANGED <<env, idx, response, ds, band, forecasts, s3, oplog,
                   prev, calc, query, srs>>

\* the document that is dumped to forecasts.json:
\*   ingestor: data = the dict the band loop returned
\*   ingester: data = {"available_forecasts": [...]}
manifest_data ==
    IF env.variant = "ingestor" THEN forecasts ELSE available_forecasts(ds)

\* json.dump(data, fp, indent=4)
DumpManifest ==
    /\ pc = "dump"
    /\ local' = put(local, ForecastsJson, manifest_data)
    /\ pc' = "manifest"
    /\ UNCHANGED <<env, idx, response, ds, band, forecasts, s3, failure,
                   oplog, prev, calc, query, srs>>

\* where the run goes after the manifest upload: the multi-parameter pipeline
\* removes its intermediate files, the single-parameter pipeline ends
after_manifest == IF env.variant = "ingestor" THEN "cleanup" ELSE "done"

\* faulty variant: the manifest is uploaded only when uploading is enabled
UploadManifest_Gated ==
    /\ pc = "manifest"
    /\ IF env.upload
       THEN upload_to_bucket(local, ForecastsJson, forecast_json_bucket_path(env, parameter))
       ELSE UNCHANGED <<s3, oplog>>
    /\ pc' = after_manifest
    /\ UNCHANGED <<env, idx, response, ds, band, forecasts, local,
                   failure, prev, calc, query, srs>>

\* upload_to_bucket(forecast_json_filename, forecast_json_bucket_path, ...)
UploadManifest ==
    /\ pc = "manifest"
    /\ upload_to_bucket(local, ForecastsJson, forecast_json_bucket_path(env, parameter))
    /\ pc' = after_manifest
    /\ UNCHANGED <<env, idx, response, ds, band, forecasts, local,
                   failure, prev, calc, query, srs>>

\* the upload of the manifest raises
UploadManifestFails ==
    /\ pc = "manifest"
    /\ raise("manifest_upload")
    /\ UNCHANGED <<env, idx, response, ds, band, forecasts, s3, local,
                   oplog, prev, calc, query, srs>>

\* the files the cleanup removes, in the order of the os.remove calls
CleanupOrder == <<TempNc, TempTif, ForecastsJson>>

\* try: os.remove x 3; except Exception: logger.warning.  The k-th remove
\* may raise, which skips the removes after it
Cleanup ==
    /\ pc = "cleanup"
    /\ \E k \in 0..Len(CleanupOrder) :
          local' = drop(local, { CleanupOrder[i] : i \in 1..k })
    /\ pc' = "done"
    /\ UNCHANGED <<env, idx, response, ds, band, forecasts, s3, failure,
                   oplog, prev, calc, query, srs>>

\* faulty variant: the loop ends at the first parameter whose fetch has failed
NextParameter_OnlyAfterSuccess ==
    /\ pc = "done"
    /\ failure = "none"
    /\ idx < Len(parameter_list(env))
    /\ idx' = idx + 1
    /\ pc' = "fetch"
    /\ prev' = run_summary
    /\ fresh_run
    /\ UNCHANGED <<env, forecasts, s3, local, calc>>

\* for parameter in parameters.split(","): the next element
NextParameter ==
    /\ pc = "done"
    /\ idx < Len(parameter_list(env))
    /\ idx' = idx + 1
    /\ pc' = "fetch"
    /\ prev' = run_summary
    /\ fresh_run
    /\ UNCHANGED <<env, forecasts, s3, local, calc>>

\* the list is exhausted: the process ends normally
Exit ==
    /\ pc = "done"
    /\ idx = Len(parameter_list(env))
    /\ pc' = "exited"
    /\ prev' = run_summary
    /\ UNCHANGED <<env, idx, response, ds, band, forecasts, s3, local,
                   failure, oplog, calc, query, srs>>

\* the scheduler invokes the process again, with the same configuration and
\* the same object store; the data directory of the new process is empty
\* (__main__ creates base_data_dir when it does not exist)
Invoke ==
    /\ pc \in {"exited", "crashed"}
    /\ idx' = 1
    /\ pc' = "fetch"
    /\ prev' = IF pc = "crashed" THEN NoPrev ELSE prev
    /\ fresh_run
    /\ forecasts' = EmptyFiles
    /\ local' = EmptyFiles
    /\ UNCHANGED <<env, s3, calc>>

Next ==
    \/ FetchOk
    \/ FetchHttpError
    \/ FetchRaises
    \/ DeleteOutdated
    \/ DeleteFails
    \/ OpenDataset
    \/ OpenDatasetFails
    \/ ToNetcdf
    \/ NetcdfToCog
    \/ NetcdfToCogFails
    \/ BandStep
    \/ BandUploadFails
    \/ DumpManifest
    \/ UploadManifest
    \/ UploadManifestFails
    \/ Cleanup
    \/ NextParameter
    \/ Exit
    \/ Invoke

Spec == Init /\ [][Next]_vars

\* the deployments with two distinct parameter names
TwoParameterInit == Init /\ env.parameters = <<"a", ",", "b">>

\* the for loop always goes on when the body has ended for a parameter: to
\* the next element, or to the end of the process after the last
FairSpec ==
    TwoParameterInit /\ [][Next]_vars /\ WF_vars(NextParameter) /\ WF_vars(Exit)

\* the process in a deployment whose PARAMETERS has an empty element
EmptyElementSpec == InitIn(EmptyElementEnvironments) /\ [][Next]_vars

(***************************************************************************)
(* The key derivation on its own: the first statement of the band loop,    *)
(* applied to two values of a time axis.                                   *)
(***************************************************************************)
\* instants over two days, with field values of one and of two digits
SampleInstants ==
    { ((day * 86400 + hh * 3600 + mm * 60 + ss) * TicksPerSecond) + f :
        day \in {0, 1}, hh \in {0, 12, 23}, mm \in {0, 59}, ss \in {0, 9, 10},
        f \in 0..(TicksPerSecond - 1) }

\* time_str = ...; output_file = os.path.join(folder_name, time_str + ".tif")
KeyOfTimestep ==
    /\ calc = Idle
    /\ \E t1 \in SampleInstants, t2 \in SampleInstants :
          calc' = [op |-> "key", t1 |-> t1, t2 |-> t2,
                   key1 |-> time_str(t1), key2 |-> time_str(t2),
                   file1 |-> band_file(t1)]
    /\ UNCHANGED <<env, pc, idx, response, ds, band, forecasts, s3, local,
                   failure, oplog, prev, query, srs>>

KeyNext == KeyOfTimestep

KeySpec == Init /\ [][KeyNext]_vars

(***************************************************************************)
(* The public address on its own: the upload and the forecasts entry of    *)
(* one pass of the band loop, for several endpoints and bucket names.      *)
(***************************************************************************)
\* os.getenv("BUCKET_ENDPOINT"): https://o.t, https://s3.t, https://t.st
UrlEndpoints ==
    { Endpoint,
      <<"h", "t", "t", "p", "s", ":", "/", "/", "s", "3", ".", "t">>,
      <<"h", "t", "t", "p", "s", ":", "/", "/", "t", ".", "s", "t">> }

\* os.getenv("BUCKET_NAME")
UrlBuckets == { <<"b">>, <<"b", "k">> }

UrlEnvironments ==
    [ variant         : {"ingestor"},
      upload          : {TRUE},
      parameters      : { <<"a">> },
      bucket_name     : UrlBuckets,
      bucket_base_path: { <<"f">> },
      collection      : { DefaultCollection },
      bucket_endpoint : UrlEndpoints ]

\* upload_to_bucket(output_file, f"{bucket_name}/{bucket_path}/{basename}", ...)
\* forecasts[time_str] = f"https://{bucket_name}.{endpoint.lstrip(...)}/..."
AddressOfBand ==
    /\ calc = Idle
    /\ \E e \in UrlEnvironments, t \in SampleInstants :
          calc' = [op |-> "url", e |-> e, t |-> t,
                   p |-> parameter_list(e)[1],
                   key |-> time_str(t),
                   object |-> band_object(e, parameter_list(e)[1], t),
                   url |-> public_url(e, parameter_list(e)[1], t)]
    /\ UNCHANGED <<env, pc, idx, response, ds, band, forecasts, s3, local,
                   failure, oplog, prev, query, srs>>

UrlNext == AddressOfBand

UrlSpec == Init /\ [][UrlNext]_vars

(***************************************************************************)
(* Vocabulary of the properties.                                           *)
(***************************************************************************)
\* the Publication Target of the current parameter
target == target_path(env, parameter)

\* the manifest object of the current parameter
manifest_object == forecast_json_bucket_path(env, parameter)

\* the band object of the i-th timestep of the decoded dataset
band_object_of(i) == band_object(env, parameter, ds[i])

\* the storage calls of the current run, by kind
rm_calls == { i \in 1..Len(oplog) : oplog[i].op = "rm" }
put_calls == { i \in 1..Len(oplog) : oplog[i].op = "put" }
manifest_puts == { i \in put_calls : oplog[i].path = manifest_object }
band_puts == put_calls \ manifest_puts

\* the current parameter's run has ended without any failure
run_succeeded == pc \in {"done", "exited"} /\ failure = "none"

(***************************************************************************)
(* C1.  A fetch that returns a non-success HTTP status changes nothing at  *)
(* the Publication Target: every step that ends in a state whose response  *)
(* is the error status leaves the object store as it was, and the run has  *)
(* made no storage call at all (no delete, no upload, no manifest write).  *)
(* In both pipelines.                                                      *)
(***************************************************************************)
C1_FetchErrorTouchesNothing ==
    [][ response'.status = "http_error" => (s3' = s3 /\ oplog' = <<>>) ]_vars

\* a fetch has failed while a complete publication lay at the target
C1_Witness ==
    /\ response.status = "http_error"
    /\ pc = "done"
    /\ manifest_object \in DOMAIN s3
    /\ Cardinality(under(s3, target)) > 1

(***************************************************************************)
(* C2.  Failures are isolated per parameter: no failure in one parameter's *)
(* pipeline (fetch failure, I/O error while deleting, while uploading a    *)
(* band, while uploading the manifest) ends the process; the later         *)
(* parameters are still processed.                                         *)
(***************************************************************************)
C2_FailuresIsolated ==
    failure \in {"fetch", "delete", "band_upload", "manifest_upload"}
        => pc # "crashed"

(***************************************************************************)
(* C3.  The manifest is uploaded only after the band loop has run through  *)
(* without a failed upload, as the last storage call of the run and after  *)
(* the upload of every band the run uploads; once the upload of band i has *)
(* failed the run is over: the uploads made are those of the bands before  *)
(* i, and no manifest is written.                                          *)
(***************************************************************************)
C3_ManifestAfterAllBands ==
    /\ manifest_puts # {} =>
          /\ failure = "none"
          /\ band = Len(ds)
          /\ manifest_puts = {Len(oplog)}
          /\ env.upload =>
                \A i \in 1..Len(ds) :
                    \E j \in band_puts : /\ oplog[j].path = band_object_of(i)
                                         /\ j < Len(oplog)
    /\ failure = "band_upload" =>
          /\ pc = "crashed"
          /\ manifest_puts = {}
          /\ Cardinality(band_puts) = band
          /\ \A j \in band_puts : \E i \in 1..band : oplog[j].path = band_object_of(i)

\* the upload of a band after the first has failed
C3_Witness ==
    /\ failure = "band_upload"
    /\ band >= 1
    /\ band + 1 < Len(ds)

\* the band objects of the decoded dataset, and those found under the target
expected_band_objects == { band_object_of(i) : i \in 1..Len(ds) }
band_objects_at_target == under(s3, target) \ {manifest_object}

\* the number of entries of a manifest document
manifest_entries(m) ==
    IF env.variant = "ingestor"
    THEN Cardinality(DOMAIN m)
    ELSE Len(m.available_forecasts)

\* the whole seconds of the decoded time axis
whole_seconds == { ds[i] \div TicksPerSecond : i \in 1..Len(ds) }

(***************************************************************************)
(* C4.  After a successful run with upload enabled the objects under the   *)
(* Publication Target are exactly the band objects of the new dataset plus *)
(* forecasts.json, whatever the target held before.                        *)
(***************************************************************************)
C4_TargetHoldsExactlyNewPublication ==
    (run_succeeded /\ env.upload) =>
        under(s3, target) = expected_band_objects \cup {manifest_object}

\* a successful run has replaced a publication larger than its own
C4_Witness ==
    /\ run_succeeded
    /\ env.upload
    /\ oplog[1].found > Len(ds) + 1

(***************************************************************************)
(* C5, as claimed.  A time axis of N distinct ascending timestamps, which  *)
(* may differ only in their sub-second part, leaves exactly N band objects *)
(* and a manifest of exactly N entries.                                    *)
(***************************************************************************)
C5_DistinctTimestampsDistinctKeys ==
    (run_succeeded /\ env.upload) =>
        /\ Cardinality(band_objects_at_target) = Len(ds)
        /\ manifest_entries(s3[manifest_object]) = Len(ds)

(***************************************************************************)
(* C5, amended.  The run leaves one band object per distinct whole second  *)
(* of the time axis: N band objects and N manifest entries when the N      *)
(* timestamps differ at whole-second resolution.  (The manifest of the     *)
(* single-parameter pipeline is a list and always has N entries.)          *)
(***************************************************************************)
C5_OneBandPerWholeSecond ==
    (run_succeeded /\ env.upload) =>
        /\ Cardinality(band_objects_at_target) = Cardinality(whole_seconds)
        /\ manifest_entries(s3[manifest_object]) =
              IF env.variant = "ingestor" THEN Cardinality(whole_seconds) ELSE Len(ds)
        /\ Cardinality(whole_seconds) = Len(ds) =>
              /\ Cardinality(band_objects_at_target) = Len(ds)
              /\ manifest_entries(s3[manifest_object]) = Len(ds)

\* a published time axis of two timestamps in different whole seconds
C5_Witness ==
    /\ run_succeeded
    /\ env.upload
    /\ Len(ds) >= 2
    /\ Cardinality(whole_seconds) = Len(ds)

\* the decimal digits, their values and the character order of keys
DigitChars == {"0", "1", "2", "3", "4", "5", "6", "7", "8", "9"}
DigitValue(c) == CHOOSE n \in 0..9 : Digit(n) = c
CharCode(c) == IF c \in DigitChars THEN 48 + DigitValue(c) ELSE 84

\* the number written in positions a..b of a string of digits
RECURSIVE Number(_, _, _)
Number(s, a, b) ==
    IF b < a THEN 0 ELSE 10 * Number(s, a, b - 1) + DigitValue(s[b])

\* a sorts before b in lexical order
LexLess(a, b) ==
    \/ \E i \in 1..Len(a) :
          /\ i <= Len(b)
          /\ CharCode(a[i]) < CharCode(b[i])
          /\ \A j \in 1..(i - 1) : a[j] = b[j]
    \/ Len(a) < Len(b) /\ SubSeq(b, 1, Len(a)) = a

DotTif == <<".", "t", "i", "f">>

\* noon of the first day, 2024-03-01T12:00:00
Noon == 12 * 3600

(***************************************************************************)
(* C6, as claimed.  The key of a timestamp is the compact string           *)
(* YYYYMMDDhhmmss: fourteen digits, no separator or punctuation at all;    *)
(* 2024-03-01T12:00:00.5 gives 20240301120000 and 20240301120000.tif.      *)
(***************************************************************************)
C6_KeyHasNoSeparator ==
    calc.op = "key" =>
        /\ Len(calc.key1) = 14
        /\ \A i \in 1..Len(calc.key1) : calc.key1[i] \in DigitChars
        /\ calc.t1 \div TicksPerSecond = Noon =>
              /\ calc.key1 = <<"2", "0", "2", "4", "0", "3", "0", "1",
                               "1", "2", "0", "0", "0", "0">>
              /\ calc.file1 = calc.key1 \o DotTif

(***************************************************************************)
(* C6, amended.  The key is YYYYMMDDThhmmss: hyphens, colons and the       *)
(* sub-second part are dropped, the "T" between date and time stays.  Its  *)
(* fields are those of the timestamp's whole second, and keys sort as      *)
(* their whole seconds do; 2024-03-01T12:00:00.5 gives 20240301T120000 and *)
(* the band object 20240301T120000.tif.                                    *)
(***************************************************************************)
C6_KeyIsCompactIsoWithT ==
    calc.op = "key" =>
        LET k1 == calc.key1
            k2 == calc.key2
            s1 == calc.t1 \div TicksPerSecond
            s2 == calc.t2 \div TicksPerSecond
        IN  /\ Len(k1) = 15
            /\ k1[9] = "T"
            /\ \A i \in (1..15) \ {9} : k1[i] \in DigitChars
            /\ Number(k1, 1, 4) = 2024
            /\ Number(k1, 5, 6) = 3
            /\ Number(k1, 7, 8) = 1 + (s1 \div 86400)
            /\ Number(k1, 10, 11) = (s1 % 86400) \div 3600
            /\ Number(k1, 12, 13) = (s1 % 3600) \div 60
            /\ Number(k1, 14, 15) = s1 % 60
            /\ (s1 < s2) <=> LexLess(k1, k2)
            /\ (s1 = s2) <=> (k1 = k2)
            /\ s1 = Noon =>
                  /\ k1 = <<"2", "0", "2", "4", "0", "3", "0", "1", "T",
                            "1", "2", "0", "0", "0", "0">>
                  /\ calc.file1 = k1 \o DotTif

\* the key of a timestamp with a sub-second part, and that of a later day
C6_Witness ==
    /\ calc.op = "key"
    /\ calc.t1 \div TicksPerSecond = Noon
    /\ calc.t1 % TicksPerSecond # 0
    /\ calc.t2 \div TicksPerSecond > 86400


(***************************************************************************)
(* C7.  Idempotence: when two consecutive successful runs of the same      *)
(* parameter publish the same dataset, the second leaves the same object   *)
(* keys under the target and the same manifest content as the first.       *)
(***************************************************************************)
C7_RepublishingIsIdempotent ==
    (pc = "done" /\ failure = "none" /\ prev.ok
        /\ prev.path = target /\ prev.time = ds) =>
        /\ under(s3, target) = DOMAIN prev.objects
        /\ s3[manifest_object] = prev.objects[manifest_object]

\* the same dataset has been published twice in succession, the first time
\* over a publication that was larger
C7_Witness ==
    /\ pc = "done"
    /\ failure = "none"
    /\ env.upload
    /\ prev.ok
    /\ prev.path = target
    /\ prev.time = ds
    /\ prev.found > Cardinality(DOMAIN prev.objects)

(***************************************************************************)
(* C8.  Fail empty: every upload of a run comes after its deletion of the  *)
(* prior publication, and when a step after the deletion fails, every      *)
(* object under the target is one this run has uploaded: nothing of the    *)
(* prior publication is left, and no manifest.                             *)
(***************************************************************************)
C8_FailEmpty ==
    /\ \A j \in put_calls : \E i \in rm_calls : i < j
    /\ failure \in {"decode", "convert", "band_upload", "manifest_upload"} =>
          /\ rm_calls = {1}
          /\ \A k \in under(s3, target) : \E j \in put_calls : oplog[j].path = k
          /\ manifest_object \notin DOMAIN s3

\* the manifest upload has failed after a prior publication was deleted and
\* the new bands were uploaded
C8_Witness ==
    /\ failure = "manifest_upload"
    /\ oplog[1].found > 0
    /\ band_puts # {}

(***************************************************************************)
(* C9, as claimed.  The prior publication is deleted only after decoding   *)
(* and conversion, so a failure while decoding or converting leaves it     *)
(* untouched: no deletion has removed an object.                           *)
(***************************************************************************)
C9_ConversionFailureLeavesPrior ==
    failure \in {"decode", "convert"} => \A i \in rm_calls : oplog[i].found = 0

(***************************************************************************)
(* C9, amended.  The order of a run is Fetching, Deleting-Prior, decoding, *)
(* Converting, Publishing-Bands, Writing-Manifest (then Cleanup in the     *)
(* multi-parameter pipeline): the deletion is the first storage call, made *)
(* before the payload is decoded, so a failure while decoding or           *)
(* converting finds the prior publication already deleted.                 *)
(***************************************************************************)
C9_DeletionPrecedesDecoding ==
    /\ pc \in {"fetch", "delete"} => (oplog = <<>> /\ ds = NoDataset)
    /\ pc = "decode" => (Len(oplog) = 1 /\ rm_calls = {1} /\ ds = NoDataset)
    /\ pc \in {"netcdf", "cog"} => (Len(oplog) = 1 /\ rm_calls = {1} /\ ds # NoDataset)
    /\ pc \in {"bands", "dump", "manifest"} =>
          (rm_calls = {1} /\ manifest_puts = {} /\ local[TempTif] = ds)
    /\ pc = "cleanup" => (rm_calls = {1} /\ manifest_puts = {Len(oplog)})
    /\ failure \in {"decode", "convert"} =>
          (rm_calls = {1} /\ Len(oplog) = 1 /\ under(s3, target) = {})

\* the payload could not be decoded after a prior publication was deleted
C9_Witness ==
    /\ failure = "decode"
    /\ oplog[1].found > 0

(***************************************************************************)
(* C10.  Deleting a target under which nothing exists does not fail: no    *)
(* run is ended by the absence of the target, the run goes on to decoding  *)
(* and ends with the same objects at the target as a run that replaced a   *)
(* prior publication.                                                      *)
(***************************************************************************)
C10_DeletingAbsentTargetSucceeds ==
    /\ failure # "not_found"
    /\ (rm_calls # {} /\ oplog[1].found = 0) =>
          /\ (Len(oplog) = 1 /\ failure = "none") => pc \in {"decode", "netcdf", "cog", "bands", "dump", "manifest"}
          /\ run_succeeded =>
                /\ manifest_object \in DOMAIN s3
                /\ band_objects_at_target = IF env.upload THEN expected_band_objects ELSE {}

\* a run has completed on a target that held nothing
C10_Witness ==
    /\ run_succeeded
    /\ env.upload
    /\ oplog[1].found = 0
    /\ Cardinality(band_objects_at_target) >= 2

(***************************************************************************)
(* C11.  A fetch that returns an error status is terminal only for its own *)
(* parameter.  The run of that parameter ends without a single storage     *)
(* call and without ending the process, and the loop goes on: the process  *)
(* reaches the fetch of the next parameter, or its normal end when the     *)
(* list is exhausted.  With two parameters configured: when the first      *)
(* fetch has failed and the run of the second has succeeded, the manifest  *)
(* and the band objects of the second are written; when the first has      *)
(* succeeded and the fetch of the second has failed, the publication of    *)
(* the first is still as its run left it.                                  *)
(***************************************************************************)
C11_FetchFailureTerminalForOwnParameter ==
    /\ [](/\ failure = "fetch" => (pc \in {"done", "exited"} /\ oplog = <<>>)
          /\ pc = "done" => failure \in {"none", "fetch"}
          /\ (pc = "done" /\ idx > 1 /\ ~prev.ok /\ failure = "none") =>
                /\ manifest_puts = {Len(oplog)}
                /\ manifest_object \in DOMAIN s3
                /\ Cardinality(band_puts) = IF env.upload THEN Len(ds) ELSE 0
                /\ env.upload => expected_band_objects \subseteq DOMAIN s3
          /\ (pc = "done" /\ idx > 1 /\ prev.ok /\ failure = "fetch") =>
                restrict(s3, prev.path) = prev.objects)
    /\ [][(pc = "done" /\ pc' = "fetch") =>
             /\ idx' = idx + 1
             /\ prev'.ok <=> (failure = "none")
             /\ s3' = s3]_vars
    /\ (pc = "done" /\ failure = "fetch")
          ~> (pc = "exited" \/ (pc = "fetch" /\ failure = "none"))

\* two parameters: the fetch of the first has failed, which left its earlier
\* publication in place, and the run of the second has published two bands
C11_Witness ==
    /\ pc = "done"
    /\ idx = 2
    /\ parameter_list(env)[1] # parameter_list(env)[2]
    /\ ~prev.ok
    /\ failure = "none"
    /\ env.upload
    /\ Len(ds) >= 2
    /\ under(s3, target_path(env, parameter_list(env)[1])) # {}

\* the number of timesteps whose band the run has uploaded so far
uploaded_bands == IF env.upload THEN band ELSE 0

\* the last of the first k timesteps that has the key of timestep i
last_with_key_of(i, k) ==
    CHOOSE j \in i..k :
        /\ band_object_of(j) = band_object_of(i)
        /\ \A l \in (j + 1)..k : band_object_of(l) # band_object_of(i)

(***************************************************************************)
(* C12.  Bands are uploaded one at a time in ascending time order,         *)
(* timestep index i as band i+1.  In every state from the deletion of the  *)
(* prior publication to the end of the run, the state left by an upload    *)
(* that failed mid-loop included, the band objects at the Publication      *)
(* Target are exactly those of the first k timesteps of the dataset, k     *)
(* being the number of bands uploaded so far (0 <= k <= N), and each holds *)
(* the band of its timestep.                                               *)
(***************************************************************************)
C12_BandObjectsArePrefixOfTimeline ==
    rm_calls # {} =>
        /\ uploaded_bands \in 0..Len(ds)
        /\ band_objects_at_target = { band_object_of(i) : i \in 1..uploaded_bands }
        /\ Cardinality(band_puts) = uploaded_bands
        /\ \A i \in 1..uploaded_bands :
              s3[band_object_of(i)] = ds[last_with_key_of(i, uploaded_bands)]

\* the upload of the second of three bands has failed, after a prior
\* publication had been deleted
C12_Witness ==
    /\ failure = "band_upload"
    /\ band = 1
    /\ Len(ds) = 3
    /\ oplog[1].found > 1

\* the intermediate files that are in the data directory
intermediate_files_left ==
    { CleanupOrder[i] : i \in 1..Len(CleanupOrder) } \cap DOMAIN local

(***************************************************************************)
(* C13.  After the manifest has been written the multi-parameter pipeline  *)
(* removes temp.nc, temp.tif and forecasts.json, and a removal that fails  *)
(* is not fatal: the run still ends normally, and the failure does not     *)
(* prevent the removal of the other two files, so that at most the one     *)
(* file whose removal failed is left.                                      *)
(***************************************************************************)
C13_FailedRemovalSkipsNothing ==
    (env.variant = "ingestor" /\ pc = "done" /\ failure = "none") =>
        Cardinality(intermediate_files_left) <= 1

\* the collection is one of the HARMONIE family, in the multi-parameter pipeline
harmonie_run == env.variant = "ingestor" /\ startswith(env.collection, Harmonie)

\* the dataset has been tagged with the Lambert reference and reprojected
reprojected == srs # NoSrs /\ srs # decoded_srs(response)

(***************************************************************************)
(* C14.  Coordinate normalization in the multi-parameter pipeline is       *)
(* decided by the collection identifier alone and happens before           *)
(* conversion.  The query carries the "native" hint exactly when the       *)
(* collection name starts with "harmonie", the geographic hint "crs84"     *)
(* otherwise; the decoded dataset is reprojected exactly in the first      *)
(* case, and keeps the reference it was decoded with in the second; from   *)
(* decoding on, so whenever the dataset is handed to the conversion, its   *)
(* tag and its grid are geographic.  (The single-parameter pipeline always *)
(* sends "crs84" and never reprojects.)                                    *)
(***************************************************************************)
C14_NormalizationDecidedByCollection ==
    /\ query # NoQuery =>
          /\ query.crs \in {"native", "crs84"}
          /\ query.crs = "native" <=> harmonie_run
    /\ pc \in {"fetch", "delete", "decode"} => srs = NoSrs
    /\ pc \in {"netcdf", "cog", "bands", "dump", "manifest", "cleanup"} =>
          srs # NoSrs
    /\ srs # NoSrs =>
          /\ reprojected <=> harmonie_run
          /\ reprojected <=> query.crs = "native"
          /\ ~reprojected =>
                (query.crs = "crs84" /\ srs = [tag |-> response.crs, grid |-> response.crs])
          /\ srs = [tag |-> "geographic", grid |-> "geographic"]

\* a dataset of a HARMONIE collection, fetched on the Lambert grid, is handed
\* to the conversion
C14_Witness ==
    /\ harmonie_run
    /\ pc = "cog"
    /\ query.crs = "native"
    /\ response.crs = "lambert"
    /\ reprojected

\* the band objects of the timesteps a manifest document m lists, for the
\* Publication Target of parameter p: the keys of the mapping (multi-parameter
\* pipeline), the keys of the listed timestamps (single-parameter pipeline)
listed_band_objects(p, m) ==
    IF env.variant = "ingestor"
    THEN { target_path(env, p) \o Slash \o k \o DotTif : k \in DOMAIN m }
    ELSE { target_path(env, p)
               \o replace(replace(m.available_forecasts[i], "-"), ":") \o DotTif :
           i \in 1..Len(m.available_forecasts) }

\* the configured parameters
configured == { parameter_list(env)[i] : i \in 1..Len(parameter_list(env)) }

(***************************************************************************)
(* C15.  Manifest consistency: in every reachable state of the object      *)
(* store, with upload enabled or disabled and in both pipelines, whenever  *)
(* a manifest exists at a Publication Target, every timestep it lists has  *)
(* its band object at that target.                                         *)
(***************************************************************************)
C15_ManifestListsOnlyPresentBands ==
    \A p \in configured :
        forecast_json_bucket_path(env, p) \in DOMAIN s3 =>
            listed_band_objects(p, s3[forecast_json_bucket_path(env, p)])
                \subseteq DOMAIN s3

Https == <<"h", "t", "t", "p", "s", ":", "/", "/">>

\* the host of an endpoint of the form https://<host>
host_of(endpoint) == SubSeq(endpoint, Len(Https) + 1, Len(endpoint))

(***************************************************************************)
(* C16.  In the multi-parameter pipeline, for every bucket name, every     *)
(* endpoint https://<host> and every band key k, the address recorded for  *)
(* k is https://<bucket>.<host>/<base_path>/<collection>/<parameter>/k.tif *)
(* with the host of the endpoint unchanged, and it names the object        *)
(* uploaded to <bucket>/<base_path>/<collection>/<parameter>/k.tif.        *)
(***************************************************************************)
C16_AddressKeepsHost ==
    calc.op = "url" =>
        LET e    == calc.e
            path == e.bucket_base_path \o Slash \o e.collection \o Slash
                    \o calc.p \o Slash \o calc.key \o DotTif
        IN  /\ startswith(e.bucket_endpoint, Https)
            /\ calc.object = e.bucket_name \o Slash \o path
            /\ calc.url = Https \o e.bucket_name \o <<".">>
                              \o host_of(e.bucket_endpoint) \o Slash \o path

\* the objects of the publication of parameter q: those under its Publication
\* Target that lie under no deeper target of a configured parameter
publication(q) ==
    { k \in under(s3, target_path(env, q)) :
        \A r \in configured :
            k \in under(s3, target_path(env, r)) =>
                Len(target_path(env, r)) <= Len(target_path(env, q)) }

(***************************************************************************)
(* C17.  Processing one parameter only touches its own Publication Target: *)
(* for every configured list, a list with an empty element or a repeated   *)
(* name included, no step taken while parameter p is processed deletes or  *)
(* overwrites an object that lies under the Publication Target of a        *)
(* different configured parameter.  (Stated for the objects of the other   *)
(* parameter's publication, which is the least the sentence says.)         *)
(***************************************************************************)
C17_OtherTargetsUntouched ==
    [][\A q \in configured \ {parameter} :
          \A k \in publication(q) :
              k \in DOMAIN s3' /\ s3'[k] = s3[k]]_vars

(***************************************************************************)
(* C18.  The upload-enable flag gates only the per-band uploads.  With     *)
(* uploading disabled no band is ever uploaded, and a run whose fetch      *)
(* succeeded and that ran through has made exactly two storage calls: the  *)
(* recursive deletion of its target and the upload of the manifest, which  *)
(* is then the only object under the target.  That manifest is an empty    *)
(* mapping in the multi-parameter pipeline and the list of all N           *)
(* timestamps in the single-parameter pipeline.                            *)
(***************************************************************************)
C18_UploadFlagGatesOnlyBands ==
    ~env.upload =>
        /\ band_puts = {}
        /\ run_succeeded =>
              /\ Len(oplog) = 2
              /\ oplog[1].op = "rm" /\ oplog[1].path = target
              /\ oplog[2] = [op |-> "put", path |-> manifest_object]
              /\ under(s3, target) = {manifest_object}
              /\ IF env.variant = "ingestor"
                 THEN s3[manifest_object] = EmptyFiles
                 ELSE /\ Len(s3[manifest_object].available_forecasts) = Len(ds)
                      /\ \A i \in 1..Len(ds) :
                            s3[manifest_object].available_forecasts[i]
                                = whole_seconds_str(ds[i])

\* with uploading disabled a run over two timesteps has ended, having deleted
\* what its target held
C18_Witness ==
    /\ ~env.upload
    /\ run_succeeded
    /\ oplog[1].found >= 1
    /\ Len(ds) >= 2

\* the single-band raster files of the decoded dataset that are in the data
\* directory
band_files_left == { band_file(ds[i]) : i \in 1..Len(ds) } \cap DOMAIN local

(***************************************************************************)
(* C19.  No transient local file outlives the run of the parameter that    *)
(* produced it: once the run has reached Done after a successful manifest  *)
(* write and a cleanup in which every removal succeeded, the data          *)
(* directory holds no file the run produced, neither temp.nc, temp.tif and *)
(* forecasts.json nor a single-band raster file of a timestep.             *)
(***************************************************************************)
C19_NoTransientFileOutlivesRun ==
    (pc = "done" /\ failure = "none" /\ intermediate_files_left = {}) =>
        band_files_left = {}

====
